---- MODULE Spec2Model ----
(***************************************************************************)
(* Joint deep clustering + sentiment model (FNN on Keras, FNNGPU on torch). *)
(* The module models the life cycle of one model object and one invocation  *)
(* of clustering_with_sentiment, step by step, for both implementations,    *)
(* and compute_class_weights as a pure function.                            *)
(*                                                                          *)
(* Calls into the numeric frameworks (predict / forward, train_on_batch,    *)
(* optimizer.step, save_weights, KMeans) are opaque: their numeric results  *)
(* are drawn from small sets and any of them may raise (action Raise).      *)
(***************************************************************************)
EXTENDS Integers, Sequences, FiniteSets, TLC

\* ---------------------------------------------------------------- bounds
MaxN == 3          \* largest dataset size
MaxBatch == 2      \* largest batch_size
MaxInterval == 2   \* largest update_interval
MaxIter == 3       \* largest maxiter
NClusters == 2     \* n_clusters of the model object
MaxLen == 4        \* longest label vector given to compute_class_weights alone
MaxSamples == 2    \* most samples in one input of predict
LongIter == 6      \* maxiter of the long runs (several checkpoint intervals)
LongN == 2         \* largest dataset size of the long runs
MaxTexts == 2      \* longest list of texts given to the cluster analysis
MaxAssign == 2     \* longest vector of cluster assignments given to it
MaxRows == 2       \* most rows of a batch given to the clustering head or of a q

\* tol as a fraction <<numerator, denominator>>: 1e-3 (the default) and 1/2
Tols == {<<1, 1000>>, <<1, 2>>}

\* the spec's imbalanced scenario {negative: 100, positive: 25}
ScenarioCounts == {<<100, 25>>}

VARIABLES
    impl,             \* "FNN" | "FNNGPU": which class the object is
    batch_size,       \* self.batch_size
    aeWeights,        \* "random" | "pretrained": the autoencoder's weights
    hasEncoder,       \* FNN: attribute self.encoder exists
    hasModel,         \* FNN: attribute self.model exists
    centroids,        \* clustering layer weights: [n |-> size, by |-> last writer]
    pc,               \* position of the program
    N,                \* len(dataset)
    labelled,         \* the dataset's items carry labels
    items,            \* what dataset[i] is: "plain" | "tuple" | "namedtuple"
    y,                \* the labels, class indices (<<>> when unlabelled)
    update_interval, maxiter, tol,
    class_weights,    \* sentiment_class_weights: NoWeights (None) or a map class -> <<num, den>>
    cwCalls,          \* calls of compute_class_weights
    kmeansCalls,      \* completed KMeans.fit_predict calls
    kmeansOver,       \* number of bottleneck vectors given to the last fit_predict
    logfile,          \* "unopened" | "open" | "closed"
    log,              \* records written by logwriter.writerow
    ite,              \* next value of the loop variable of `for ite in range(int(maxiter))`
    index,            \* FNN: batch index
    bidx,             \* FNNGPU: batches of train_loader consumed in this iteration
    y_pred_last,      \* assignment recorded at the previous refresh (or by k-means)
    p,                \* iteration at which the target distribution p was computed, -1: unbound
    train_loader,     \* FNNGPU: iteration of the p in train_loader's dataset, -1: none
    dirty,            \* weights or centroids changed since y_pred_last was computed
    trainSteps,       \* gradient steps so far
    stepsThisIter,    \* gradient steps in the current loop iteration
    lastBatch,        \* the batch of the last gradient step
    batch,            \* FNN: rows of batch_x, batch_p, batch_y_sentiment and the sample weights
    pass,             \* FNN: samples trained on since index was last 0, in order
    ckpts,            \* iterations of the intermediate checkpoints written
    finalSaves,       \* writes of FNN_model_final
    finalVer,         \* trainSteps at the write of FNN_model_final, -1: none
    exit,             \* "none" | "converged" | "maxiter": how the loop ended
    failedAt,         \* pc at which an exception left the function, "" if none
    returned,         \* shape of the value returned
    returnedStale,    \* the weights changed after the returned y_pred was computed
    cwIn,             \* compute_class_weights alone: its argument
    cwOut,            \* compute_class_weights alone: its result, NoWeights before the call
    seen,             \* samples consumed by gradient steps so far
    ckptSeen,         \* value of seen at each intermediate checkpoint written
    run,              \* side-by-side comparison: 1 for the first object, 2 for the second
    first,            \* side-by-side comparison: what the first object's invocation did
    y_pred,           \* a refresh alone: the arg-max assignment just computed
    delta_label,      \* a refresh alone: delta_label as a fraction, NoValue before it
    net,              \* predict alone: the network as a map feature vector -> outputs
    stop_words,       \* self.stop_words
    call,             \* the method called last on the object, with its arguments
    outcome,          \* how that call ended: "none" | "ok" | the exception's name
    results           \* what that call returned, NoValue if nothing

vars == <<impl, batch_size, aeWeights, hasEncoder, hasModel, centroids, pc, N,
          labelled, items, y, update_interval, maxiter, tol, class_weights, cwCalls,
          kmeansCalls, kmeansOver, logfile, log, ite, index, bidx, y_pred_last,
          p, train_loader, dirty, trainSteps, seen, stepsThisIter, lastBatch,
          batch, pass, ckpts, ckptSeen, finalSaves, finalVer, exit, failedAt,
          returned, returnedStale, cwIn, cwOut, run, first, y_pred, delta_label,
          net, stop_words, call, outcome, results>>

objVars  == <<impl, batch_size>>
argVars  == <<N, labelled, items, y, update_interval, maxiter, tol>>
cwVars   == <<cwIn, cwOut>>
loopVars == <<ite, index, bidx, y_pred_last, p, train_loader, dirty, trainSteps, seen,
              stepsThisIter, lastBatch, batch, pass, ckpts, ckptSeen, exit>>
endVars  == <<finalSaves, finalVer, returned, returnedStale>>
pairVars == <<run, first>>
apiVars  == <<y_pred, delta_label, net, stop_words, call, outcome, results>>

\* ------------------------------------------------------ pure functions

RECURSIVE GCD(_, _)
GCD(a, b) == IF b = 0 THEN a ELSE GCD(b, a % b)

\* the value n / d, kept exact as a fraction in lowest terms
Ratio(n, d) == <<n \div GCD(n, d), d \div GCD(n, d)>>

\* keras.utils.to_categorical(label, num_classes=2)
to_categorical(label) == IF label = 0 THEN <<1, 0>> ELSE <<0, 1>>

\* np.argmax / torch.argmax of one row of length 2: the first maximum
ArgMaxRow(row) == IF row[2] > row[1] THEN 1 ELSE 0

\* y_indices: class indices of y, which is one-hot (ndim 2) or indices (ndim 1)
y_indices(yv, ndim) ==
    IF ndim > 1 THEN [i \in DOMAIN yv |-> ArgMaxRow(yv[i])] ELSE yv

\* np.unique(y_indices, return_counts=True)
unique_classes(yi) == {yi[i] : i \in DOMAIN yi}

class_count(yi, c) == Cardinality({i \in DOMAIN yi : yi[i] = c})

BalancedWeightNoClasses(total_samples, n_classes, count) == Ratio(total_samples, count)

\* FNNGPU: class_weights[c] = total_samples / (n_classes * class_counts[i])
WeightGPU(total_samples, n_classes, count) ==
    Ratio(total_samples, n_classes * count)

\* FNN: compute_class_weight('balanced', classes=unique_classes, y=y_indices)
WeightFNN(total_samples, n_classes, count) ==
    Ratio(total_samples, n_classes * count)

compute_class_weights(which, yv, ndim) ==
    LET yi == y_indices(yv, ndim)
        uc == unique_classes(yi)
    IN  [c \in uc |->
            IF which = "FNN"
            THEN WeightFNN(Len(yi), Cardinality(uc), class_count(yi, c))
            ELSE WeightGPU(Len(yi), Cardinality(uc), class_count(yi, c))]

\* the argument each implementation passes to compute_class_weights
CwArgument(which, labels) ==
    IF which = "FNN"
    THEN [v |-> [i \in DOMAIN labels |-> to_categorical(labels[i])], ndim |-> 2]
    ELSE [v |-> labels, ndim |-> 1]

\* ------------------------------------------------------ loop predicates

Assignments(n) == [1..n -> 0..(NClusters - 1)]

Changed(a, b) == Cardinality({i \in DOMAIN a : a[i] # b[i]})

DeltaLabelUnchangedShare(yp, last) == Ratio(Len(yp) - Changed(yp, last), Len(yp))

\* delta_label = np.sum(y_pred != y_pred_last).astype(np.float32) / y_pred.shape[0]
DeltaLabel(yp, last) == Ratio(Changed(yp, last), Len(yp))

\* delta_label < tol, with delta_label = changed / n
DeltaBelowTol(changed, n, t) == changed * t[2] < t[1] * n

RefreshDueOffByOne(i, interval) == (i + 1) % interval = 0

\* if ite % update_interval == 0
RefreshDue(i, interval) == i % interval = 0

StopCriterionNoFirstGuard(i, changed, n, t) == DeltaBelowTol(changed, n, t)

\* if ite > 0 and delta_label < tol
StopCriterion(i, changed, n, t) == i > 0 /\ DeltaBelowTol(changed, n, t)

RangeExhaustedLate(i, m) == i > m

\* `for ite in range(int(maxiter))` has no further value
RangeExhausted(i, m) == i >= m

\* len(train_loader): batches of one pass over the dataset
NumBatches(n, b) == (n + b - 1) \div b

\* FNN: save_interval = x.shape[0] / self.batch_size * 5 is a float; ite % it == 0.
\* For batch sizes up to 4: n / b * 5 is exact in binary floating point when b
\* divides n or b is a power of two; otherwise the rounded value has no integer
\* multiple but 0.
ExactQuotient(n, b) == n % b = 0 \/ b \in {1, 2, 4}

SaveDueFNN(i, n, b) ==
    i = 0 \/ (ExactQuotient(n, b) /\ (i * b) % (5 * n) = 0)

\* FNNGPU: save_interval = len(train_loader) * 5; ite % it == 0 and ite > 0
SaveDueGPU(i, n, b) == i % (NumBatches(n, b) * 5) = 0 /\ i > 0

SaveDue(which, i, n, b) ==
    IF which = "FNN" THEN SaveDueFNN(i, n, b) ELSE SaveDueGPU(i, n, b)

\* FNN: the slice of the dataset trained on at batch index idx
BatchFNN(idx, n, b) ==
    IF (idx + 1) * b > n
    THEN [lo |-> idx * b, hi |-> n, next |-> 0]
    ELSE [lo |-> idx * b, hi |-> (idx + 1) * b, next |-> idx + 1]

\* FNNGPU: size of the k-th batch (k from 0) of a DataLoader pass
BatchSizeGPU(k, n, b) == IF (k + 1) * b > n THEN n - k * b ELSE b

\* None as the value of sentiment_class_weights: a map without keys
NoWeights == <<>>

NoBatch == [size |-> -1, sent |-> "none", pIter |-> -1]

\* FNN: batch_x, batch_p, batch_y_sentiment, sample_weights before the first train step
NoRows ==
    [batch_x |-> <<>>, batch_p |-> <<>>, batch_y_sentiment |-> <<>>,
     sample_weights |-> <<>>]

\* rows (counted from 0) of the slice a[lo:hi] of an array of n rows
Slice(n, lo, hi) ==
    LET top == IF hi < n THEN hi ELSE n
    IN  [k \in 1..(IF top > lo THEN top - lo ELSE 0) |-> lo + k - 1]

\* rows of the slice a[lo::]
SliceFrom(n, lo) == Slice(n, lo, n)

\* np.argmax(batch_y_sentiment, axis=1) of the one-hot rows, then
\* sample_weights[i] = sentiment_class_weights[label]
SampleWeights(rows, labels, cw) ==
    [k \in DOMAIN rows |-> cw[ArgMaxRow(to_categorical(labels[rows[k] + 1]))]]

BatchRowsFNNShiftedP(idx, n, b, labels, cw) ==
    [batch_x |-> Slice(n, idx * b, (idx + 1) * b),
     batch_p |-> Slice(n, (idx + 1) * b, (idx + 2) * b),
     batch_y_sentiment |-> Slice(n, idx * b, (idx + 1) * b),
     sample_weights |-> SampleWeights(Slice(n, idx * b, (idx + 1) * b), labels, cw)]

\* FNN: the three slices of a train step at batch index idx and the sample weights
BatchRowsFNN(idx, n, b, labels, cw) ==
    IF (idx + 1) * b > n
    THEN [batch_x |-> SliceFrom(n, idx * b),
          batch_p |-> SliceFrom(n, idx * b),
          batch_y_sentiment |-> SliceFrom(n, idx * b),
          sample_weights |-> SampleWeights(SliceFrom(n, idx * b), labels, cw)]
    ELSE [batch_x |-> Slice(n, idx * b, (idx + 1) * b),
          batch_p |-> Slice(n, idx * b, (idx + 1) * b),
          batch_y_sentiment |-> Slice(n, idx * b, (idx + 1) * b),
          sample_weights |-> SampleWeights(Slice(n, idx * b, (idx + 1) * b), labels, cw)]

\* no value yet: before a call returns, or after it raised
NoValue == <<>>

\* the variables of the methods modelled on their own, while none of them runs
ApiIdle ==
    /\ y_pred = <<>> /\ delta_label = NoValue
    /\ net = <<>>
    /\ stop_words = {}
    /\ call = [name |-> "none"] /\ outcome = "none" /\ results = NoValue

\* ------------------------------------------------------------ life cycle

Init ==
    /\ impl \in {"FNN", "FNNGPU"}
    /\ batch_size \in 1..MaxBatch
    /\ aeWeights = "random"
    /\ hasEncoder = (impl = "FNNGPU")
    /\ hasModel = (impl = "FNNGPU")
    /\ centroids = IF impl = "FNNGPU" THEN [n |-> NClusters, by |-> "init"]
                   ELSE [n |-> 0, by |-> "none"]
    /\ pc = "new"
    /\ N = 0 /\ labelled = FALSE /\ items = "plain" /\ y = <<>>
    /\ update_interval = 1 /\ maxiter = 0 /\ tol = <<1, 1000>>
    /\ class_weights = NoWeights /\ cwCalls = 0
    /\ kmeansCalls = 0 /\ kmeansOver = 0
    /\ logfile = "unopened" /\ log = <<>>
    /\ ite = 0 /\ index = 0 /\ bidx = 0
    /\ y_pred_last = <<>> /\ p = -1 /\ train_loader = -1 /\ dirty = FALSE
    /\ trainSteps = 0 /\ stepsThisIter = 0 /\ lastBatch = NoBatch
    /\ batch = NoRows /\ pass = <<>>
    /\ ckpts = <<>> /\ finalSaves = 0 /\ finalVer = -1
    /\ exit = "none" /\ failedAt = "" /\ returned = "none"
    /\ returnedStale = FALSE
    /\ cwIn = <<>> /\ cwOut = NoWeights
    /\ seen = 0 /\ ckptSeen = <<>>
    /\ run = 1 /\ first = NoValue
    /\ ApiIdle

\* what the items of a dataset can be: a tensor (no label), an (embedding, label)
\* tuple, or an (embedding, label) namedtuple
ItemKinds == {"plain", "tuple", "namedtuple"}

\* FNN tests `isinstance(item, tuple)` on dataset[i]. FNNGPU tests
\* `isinstance(data, tuple)` on a batch of its DataLoader, whose default collate
\* turns a tuple item into a list and keeps a namedtuple
SeenAsTuple(which, kind) ==
    IF which = "FNN" THEN kind # "plain" ELSE kind = "namedtuple"

\* pretrain_autoencoder(dataset): trains the autoencoder, leaving the network as
\* `trained`, and saves its weights.
\* FNN: then builds self.encoder and returns the weights.
\* FNNGPU: a batch of tuple items is a list, `inputs.to(device)` raises
\* AttributeError before any optimizer step; otherwise the optimizer steps run and
\* save_weights('pretrained_ae.weights.pth') raises FileNotFoundError in
\* os.makedirs(os.path.dirname(weights_path)), the directory name being ''
PretrainAutoencoder(kind, trained) ==
    /\ pc = "new"
    /\ IF impl = "FNN"
       THEN /\ aeWeights' = "pretrained"
            /\ hasEncoder' = TRUE
            /\ net' = trained
            /\ UNCHANGED <<pc, failedAt>>
       ELSE IF kind # "plain" /\ ~SeenAsTuple(impl, kind)
       THEN /\ pc' = "failed"
            /\ failedAt' = "inputs.to"
            /\ UNCHANGED <<aeWeights, hasEncoder, net>>
       ELSE /\ aeWeights' = "pretrained"
            /\ net' = trained
            /\ pc' = "failed"
            /\ failedAt' = "save_weights"
            /\ UNCHANGED hasEncoder
    /\ UNCHANGED <<objVars, hasModel, centroids, argVars, class_weights, cwCalls,
                   kmeansCalls, kmeansOver, logfile, log, loopVars, endVars,
                   cwVars, pairVars, y_pred, delta_label, stop_words, call,
                   outcome, results>>

\* the network's outputs are followed only where predict is modelled
PretrainCall == \E kind \in ItemKinds : PretrainAutoencoder(kind, net)

\* FNN.initialize_model(ae_weights): exit() when ae_weights is None, else load the
\* weights and build self.encoder and self.model (with its clustering layer)
InitializeModel(given) ==
    /\ pc = "new"
    /\ impl = "FNN"
    /\ IF given
       THEN /\ aeWeights' = "pretrained"
            /\ hasEncoder' = TRUE
            /\ hasModel' = TRUE
            /\ centroids' = [n |-> NClusters, by |-> "init"]
            /\ pc' = "new"
       ELSE /\ pc' = "exited"
            /\ UNCHANGED <<aeWeights, hasEncoder, hasModel, centroids>>
    /\ UNCHANGED <<objVars, argVars, class_weights, cwCalls, kmeansCalls, kmeansOver,
                   logfile, log, loopVars, endVars, failedAt, cwVars, pairVars, apiVars>>

\* load_weights(path): FNN needs self.model; FNNGPU loads the whole state dict
LoadWeights ==
    /\ pc = "new"
    /\ IF hasModel
       THEN /\ aeWeights' = "pretrained"
            /\ centroids' = [n |-> NClusters, by |-> "load"]
            /\ UNCHANGED <<pc, failedAt>>
       ELSE /\ pc' = "failed"
            /\ failedAt' = "load_weights"
            /\ UNCHANGED <<aeWeights, centroids>>
    /\ UNCHANGED <<objVars, hasEncoder, hasModel, argVars, class_weights, cwCalls,
                   kmeansCalls, kmeansOver, logfile, log, loopVars, endVars, cwVars, pairVars, apiVars>>

\* ------------------------------------------- clustering_with_sentiment

LabelVectors(n) == {[i \in 1..n |-> IF i <= n - k THEN 0 ELSE 1] : k \in 0..n}

\* the labels gathered at entry: sentiment_labels / all_labels
GatheredLabels(which, kind, labels) ==
    IF SeenAsTuple(which, kind) THEN labels ELSE <<>>

\* FNNGPU: torch.cat(all_embeddings, dim=0) raises TypeError when the batches
\* appended are lists, as they are for tuple items
CatRaises(which, kind) == which = "FNNGPU" /\ kind = "tuple"

\* FNNGPU: `if all_labels and ...` takes the truth value of the tensor all_labels,
\* which raises RuntimeError when it has more than one element
TruthValueRaises(which, gathered) == which = "FNNGPU" /\ Len(gathered) > 1

\* FNN: `if sentiment_labels:` a list, true when it is not empty
\* FNNGPU: `if all_labels and len(all_labels) > 0:` the empty list is false and a
\* tensor of one element is as true as the element, the label, is non-zero
LabelsPresent(which, gathered) ==
    IF which = "FNN" THEN gathered # <<>>
    ELSE gathered # <<>> /\ gathered[1] # 0

\* entry: extract embeddings and labels, compute the class weights when labelled
Extract(n, kind, labels, interval, m, t) ==
    /\ pc = "new"
    /\ N' = n /\ labelled' = (kind # "plain") /\ items' = kind /\ y' = labels
    /\ update_interval' = interval /\ maxiter' = m /\ tol' = t
    /\ LET gathered == GatheredLabels(impl, kind, labels)
       IN  IF CatRaises(impl, kind)
           THEN /\ pc' = "failed" /\ failedAt' = "torch.cat"
                /\ UNCHANGED <<class_weights, cwCalls>>
           ELSE IF TruthValueRaises(impl, gathered)
           THEN /\ pc' = "failed" /\ failedAt' = "if all_labels"
                /\ UNCHANGED <<class_weights, cwCalls>>
           ELSE IF LabelsPresent(impl, gathered)
           THEN LET arg == CwArgument(impl, gathered)
                    cw  == compute_class_weights(impl, arg.v, arg.ndim)
                IN  /\ cwCalls' = cwCalls + 1
                    /\ class_weights' = cw
                    \* FNNGPU: [sentiment_class_weights[i] for i in range(len(class_labels))]
                    /\ IF impl = "FNNGPU" /\ DOMAIN cw # {0, 1}
                       THEN pc' = "failed" /\ failedAt' = "class_weight_tensor"
                       ELSE pc' = "kmeans" /\ UNCHANGED failedAt
           ELSE /\ class_weights' = NoWeights
                /\ pc' = "kmeans"
                /\ UNCHANGED <<cwCalls, failedAt>>
    /\ UNCHANGED <<objVars, aeWeights, hasEncoder, hasModel, centroids, kmeansCalls,
                   kmeansOver, logfile, log, loopVars, endVars, cwVars, pairVars, apiVars>>

ExtractCall ==
    \E n \in 1..MaxN, kind \in ItemKinds, interval \in 1..MaxInterval,
       m \in 0..MaxIter, t \in Tols :
        \E labels \in (IF kind # "plain" THEN LabelVectors(n) ELSE {<<>>}) :
            Extract(n, kind, labels, interval, m, t)

KMeansFitFirstBatch(yp) ==
    /\ kmeansCalls' = kmeansCalls + 1
    /\ kmeansOver' = IF batch_size < N THEN batch_size ELSE N
    /\ y_pred_last' = yp
    /\ dirty' = TRUE
    /\ centroids' = [n |-> NClusters, by |-> "kmeans"]
    /\ pc' = "openlog"
    /\ UNCHANGED failedAt

\* KMeans(n_clusters, n_init=20).fit_predict(bottleneck of all x); set the centroids
KMeansFit(yp) ==
    /\ kmeansCalls' = kmeansCalls + 1
    /\ kmeansOver' = N
    /\ y_pred_last' = yp
    /\ dirty' = TRUE
    /\ IF hasModel
       THEN /\ centroids' = [n |-> NClusters, by |-> "kmeans"]
            /\ pc' = "openlog"
            /\ UNCHANGED failedAt
       ELSE /\ pc' = "failed"
            /\ failedAt' = "kmeans"
            /\ UNCHANGED centroids

KMeansInit ==
    /\ pc = "kmeans"
    /\ IF ~hasEncoder \/ N < NClusters
       THEN /\ pc' = "failed"
            /\ failedAt' = "kmeans"
            /\ UNCHANGED <<kmeansCalls, kmeansOver, y_pred_last, dirty, centroids>>
       ELSE \E yp \in Assignments(N) : KMeansFit(yp)
    /\ UNCHANGED <<objVars, aeWeights, hasEncoder, hasModel, argVars, class_weights,
                   cwCalls, logfile, log, ite, index, bidx, p, train_loader,
                   trainSteps, seen, stepsThisIter, lastBatch, batch, pass, ckpts, ckptSeen, exit, endVars, cwVars, pairVars, apiVars>>

\* open the log file, write the header; loss = [0, 0, 0]; index = 0
OpenLog ==
    /\ pc = "openlog"
    /\ logfile' = "open"
    /\ log' = <<>>
    /\ ite' = 0 /\ index' = 0 /\ bidx' = 0
    /\ pc' = "head"
    /\ UNCHANGED <<objVars, aeWeights, hasEncoder, hasModel, centroids, argVars,
                   class_weights, cwCalls, kmeansCalls, kmeansOver, y_pred_last, p, train_loader,
                   dirty, trainSteps, seen, stepsThisIter, lastBatch, batch, pass, ckpts, ckptSeen,
                   exit, endVars, failedAt, cwVars, pairVars, apiVars>>

LogRecordFirstIter(i) == [iter |-> 0, acc_cluster |-> 0, nmi |-> 0, ari |-> 0]

\* logdict: iter and the three placeholder fields
LogRecord(i) == [iter |-> i, acc_cluster |-> 0, nmi |-> 0, ari |-> 0]

LoaderNotRebuilt(which, i, old) == old

\* FNNGPU, end of a refresh that does not stop:
\* train_loader = DataLoader(TensorDataset(all_embeddings, p, ...)); FNN has no loader
LoaderAfterRefresh(which, i, old) == IF which = "FNNGPU" THEN i ELSE old

\* the refresh of iteration ite: q, p, y_pred, the log record, the
\* stop criterion
RefreshWith(yp) ==
    /\ p' = ite
    /\ y_pred_last' = yp
    /\ dirty' = FALSE
    /\ log' = Append(log, LogRecord(ite))
    /\ IF StopCriterion(ite, DeltaLabel(yp, y_pred_last)[1],
                        DeltaLabel(yp, y_pred_last)[2], tol)
       THEN /\ logfile' = "closed"
            /\ exit' = "converged"
            /\ pc' = "final"
            /\ UNCHANGED train_loader
       ELSE /\ pc' = "train"
            /\ train_loader' = LoaderAfterRefresh(impl, ite, train_loader)
            /\ UNCHANGED <<logfile, exit>>

Refresh ==
    /\ pc = "head"
    /\ ~RangeExhausted(ite, maxiter)
    /\ RefreshDue(ite, update_interval)
    /\ \E yp \in Assignments(N) :
          /\ (~dirty => yp = y_pred_last)
          /\ RefreshWith(yp)
    /\ bidx' = 0
    /\ UNCHANGED <<objVars, aeWeights, hasEncoder, hasModel, centroids, argVars,
                   class_weights, cwCalls, kmeansCalls, kmeansOver, ite, index,
                   trainSteps, seen, stepsThisIter, lastBatch, batch, pass, ckpts, ckptSeen, endVars, failedAt,
                   cwVars, pairVars, apiVars>>

SkipRefresh ==
    /\ pc = "head"
    /\ ~RangeExhausted(ite, maxiter)
    /\ ~RefreshDue(ite, update_interval)
    /\ pc' = "train"
    /\ bidx' = 0
    /\ UNCHANGED <<objVars, aeWeights, hasEncoder, hasModel, centroids, argVars,
                   class_weights, cwCalls, kmeansCalls, kmeansOver, logfile, log,
                   ite, index, y_pred_last, p, train_loader, dirty, trainSteps, seen,
                   stepsThisIter, lastBatch, batch, pass, ckpts, ckptSeen, exit, endVars, failedAt, cwVars, pairVars, apiVars>>

LoopExhausted ==
    /\ pc = "head"
    /\ RangeExhausted(ite, maxiter)
    /\ pc' = "final"
    /\ exit' = "maxiter"
    /\ UNCHANGED <<objVars, aeWeights, hasEncoder, hasModel, centroids, argVars,
                   class_weights, cwCalls, kmeansCalls, kmeansOver, logfile, log,
                   ite, index, bidx, y_pred_last, p, train_loader, dirty, trainSteps, seen,
                   stepsThisIter, lastBatch, batch, pass, ckpts, ckptSeen, endVars, failedAt, cwVars, pairVars, apiVars>>

\* one gradient step on a batch whose target rows come from the p of iteration pUsed
GradientStep(size, sent, pUsed) ==
    /\ trainSteps' = trainSteps + 1
    /\ seen' = seen + size
    /\ stepsThisIter' = stepsThisIter + 1
    /\ lastBatch' = [size |-> size, sent |-> sent, pIter |-> pUsed]
    /\ centroids' = [centroids EXCEPT !.by = "grad"]
    /\ dirty' = TRUE

\* `y_sentiment is not None`: the entry code binds y_sentiment and
\* sentiment_class_weights together, both to a value or both to None
HasSentiment == class_weights # NoWeights

\* FNN: `if y_sentiment is not None:` one train_on_batch on the batch at index
TrainStepFNN ==
    /\ pc = "train"
    /\ impl = "FNN"
    /\ IF HasSentiment
       THEN LET b == BatchFNN(index, N, batch_size)
            IN  /\ GradientStep(b.hi - b.lo,
                                IF DOMAIN class_weights # {} THEN "weighted_ce" ELSE "ce",
                                p)
                /\ batch' = BatchRowsFNN(index, N, batch_size, y, class_weights)
                /\ pass' = IF index = 0 THEN batch'.batch_x ELSE pass \o batch'.batch_x
                /\ index' = b.next
       ELSE UNCHANGED <<trainSteps, seen, stepsThisIter, lastBatch, batch, pass, centroids, dirty, index>>
    /\ pc' = "save"
    /\ UNCHANGED <<objVars, aeWeights, hasEncoder, hasModel, argVars, class_weights,
                   cwCalls, kmeansCalls, kmeansOver, logfile, log, ite, bidx,
                   y_pred_last, p, train_loader, ckpts, ckptSeen, exit, endVars, failedAt, cwVars, pairVars, apiVars>>

\* FNNGPU: the sentiment classifier's nn.BatchNorm1d layers, in train mode, raise
\* ValueError on a batch of one row (more than 1 value per channel is expected)
BatchNormRaises(size) == size = 1

\* FNNGPU: `for batch in train_loader:` one gradient step per batch of the pass;
\* the forward pass `self(x_batch)` on a batch of one row raises before the step
TrainBatchGPU ==
    /\ pc = "train"
    /\ impl = "FNNGPU"
    /\ bidx < NumBatches(N, batch_size)
    /\ IF BatchNormRaises(BatchSizeGPU(bidx, N, batch_size))
       THEN /\ pc' = "failed"
            /\ failedAt' = "train"
            /\ UNCHANGED <<trainSteps, seen, stepsThisIter, lastBatch, centroids,
                           dirty, bidx>>
       ELSE /\ GradientStep(BatchSizeGPU(bidx, N, batch_size),
                            IF HasSentiment THEN "weighted_ce" ELSE "zero", train_loader)
            /\ bidx' = bidx + 1
            /\ pc' = IF bidx + 1 = NumBatches(N, batch_size) THEN "save" ELSE "train"
            /\ UNCHANGED failedAt
    /\ UNCHANGED <<batch, pass>>
    /\ UNCHANGED <<objVars, aeWeights, hasEncoder, hasModel, argVars, class_weights,
                   cwCalls, kmeansCalls, kmeansOver, logfile, log, ite, index,
                   y_pred_last, p, train_loader, ckpts, ckptSeen, exit, endVars, cwVars, pairVars, apiVars>>

\* the intermediate checkpoint of iteration ite, then the next iteration
SaveIntermediate ==
    /\ pc = "save"
    /\ ckpts' = IF SaveDue(impl, ite, N, batch_size) THEN Append(ckpts, ite) ELSE ckpts
    /\ ckptSeen' = IF SaveDue(impl, ite, N, batch_size) THEN Append(ckptSeen, seen)
                   ELSE ckptSeen
    /\ ite' = ite + 1
    /\ stepsThisIter' = 0
    /\ pc' = "head"
    /\ UNCHANGED <<objVars, aeWeights, hasEncoder, hasModel, centroids, argVars,
                   class_weights, cwCalls, kmeansCalls, kmeansOver, logfile, log,
                   index, bidx, y_pred_last, p, train_loader, dirty, trainSteps, seen,
                   lastBatch, batch, pass, exit, endVars, failedAt, cwVars, pairVars, apiVars>>

SaveFinalSkipped ==
    /\ finalSaves' = finalSaves
    /\ finalVer' = finalVer

\* self.model.save_weights(save_dir + '/FNN_model_final...')
SaveFinal ==
    /\ finalSaves' = finalSaves + 1
    /\ finalVer' = trainSteps

\* after the loop: logfile.close(), then the terminal checkpoint
Finalize ==
    /\ pc = "final"
    /\ logfile' = "closed"
    /\ SaveFinal
    /\ pc' = "return"
    /\ UNCHANGED <<objVars, aeWeights, hasEncoder, hasModel, centroids, argVars,
                   class_weights, cwCalls, kmeansCalls, kmeansOver, log, loopVars,
                   returned, returnedStale, failedAt, cwVars, pairVars, apiVars>>

\* FNN: the tuple (y_pred, s_pred if ... else y_pred); FNNGPU: (y_pred, s_pred) or y_pred
ReturnShape(which, isLabelled) ==
    IF which = "FNN" \/ isLabelled THEN "pair" ELSE "single"

\* FNN: return y_pred, s_pred if y_sentiment is not None else y_pred
\*      (a pair in both cases; s_pred is unbound when no refresh ran)
\* FNNGPU: forward pass, then (y_pred, s_pred) when labelled, else y_pred
Return ==
    /\ pc = "return"
    /\ IF impl = "FNN" /\ HasSentiment /\ p = -1
       THEN /\ pc' = "failed"
            /\ failedAt' = "return"
            /\ UNCHANGED <<returned, returnedStale>>
       ELSE /\ pc' = "done"
            /\ returned' = ReturnShape(impl, HasSentiment)
            \* FNN returns the y_pred of the last refresh (or of k-means);
            \* FNNGPU computes y_pred again from the weights it has just saved
            /\ returnedStale' = (impl = "FNN" /\ dirty)
            /\ UNCHANGED failedAt
    /\ UNCHANGED <<objVars, aeWeights, hasEncoder, hasModel, centroids, argVars,
                   class_weights, cwCalls, kmeansCalls, kmeansOver, logfile, log,
                   loopVars, finalSaves, finalVer, cwVars, pairVars, apiVars>>

\* a framework call of the step at pc raises: predict / forward in a refresh,
\* train_on_batch / backward in a train step, save_weights in a checkpoint write
CallsFramework ==
    \/ pc = "head" /\ ~RangeExhausted(ite, maxiter) /\ RefreshDue(ite, update_interval)
    \/ pc = "train" /\ (impl = "FNNGPU" \/ HasSentiment)
    \/ pc = "save" /\ SaveDue(impl, ite, N, batch_size)
    \/ pc = "final"

Raise ==
    /\ CallsFramework
    /\ pc' = "failed"
    /\ failedAt' = pc
    \* the terminal save_weights follows logfile.close()
    /\ logfile' = IF pc = "final" THEN "closed" ELSE logfile
    /\ UNCHANGED <<objVars, aeWeights, hasEncoder, hasModel, centroids, argVars,
                   class_weights, cwCalls, kmeansCalls, kmeansOver, log, loopVars,
                   endVars, cwVars, pairVars, apiVars>>

Training ==
    \/ KMeansInit \/ OpenLog \/ Refresh \/ SkipRefresh \/ LoopExhausted
    \/ TrainStepFNN \/ TrainBatchGPU \/ SaveIntermediate \/ Finalize \/ Return
    \/ Raise

Next ==
    \/ PretrainCall
    \/ \E given \in BOOLEAN : InitializeModel(given)
    \/ LoadWeights
    \/ ExtractCall
    \/ Training

Spec == Init /\ [][Next]_vars

\* the function's steps run one after the other until it returns or raises
FairSpec == Spec /\ WF_vars(Training)

\* ------------------------------------------------------------ long runs

\* clustering_with_sentiment with a maxiter that spans checkpoint intervals
ExtractLong ==
    \E n \in 1..LongN, kind \in ItemKinds, interval \in 1..MaxInterval, t \in Tols :
        \E labels \in (IF kind # "plain" THEN LabelVectors(n) ELSE {<<>>}) :
            Extract(n, kind, labels, interval, LongIter, t)

NextLong ==
    \/ PretrainCall
    \/ \E given \in BOOLEAN : InitializeModel(given)
    \/ LoadWeights
    \/ ExtractLong
    \/ Training

SpecLong == Init /\ [][NextLong]_vars

\* ---------------------------------------- the two classes side by side

OtherImpl(which) == IF which = "FNN" THEN "FNNGPU" ELSE "FNN"

\* what an invocation did: its events by kind, with their iteration numbers
RunSummary ==
    [kmeansCalls |-> kmeansCalls, log |-> log, trainSteps |-> trainSteps,
     ckpts |-> ckpts, finalSaves |-> finalSaves, returned |-> returned,
     exit |-> exit, ite |-> ite,
     N |-> N, items |-> items, y |-> y, update_interval |-> update_interval,
     maxiter |-> maxiter, tol |-> tol]

\* the first object's invocation has returned: construct an object of the other
\* class with the same batch_size
StartSecond ==
    /\ run = 1
    /\ pc = "done"
    /\ first' = RunSummary
    /\ run' = 2
    /\ impl' = OtherImpl(impl)
    /\ aeWeights' = "random"
    /\ hasEncoder' = (impl' = "FNNGPU")
    /\ hasModel' = (impl' = "FNNGPU")
    /\ centroids' = IF impl' = "FNNGPU" THEN [n |-> NClusters, by |-> "init"]
                    ELSE [n |-> 0, by |-> "none"]
    /\ pc' = "new"
    /\ N' = 0 /\ labelled' = FALSE /\ items' = "plain" /\ y' = <<>>
    /\ update_interval' = 1 /\ maxiter' = 0 /\ tol' = <<1, 1000>>
    /\ class_weights' = NoWeights /\ cwCalls' = 0
    /\ kmeansCalls' = 0 /\ kmeansOver' = 0
    /\ logfile' = "unopened" /\ log' = <<>>
    /\ ite' = 0 /\ index' = 0 /\ bidx' = 0
    /\ y_pred_last' = <<>> /\ p' = -1 /\ train_loader' = -1 /\ dirty' = FALSE
    /\ trainSteps' = 0 /\ stepsThisIter' = 0 /\ lastBatch' = NoBatch
    /\ batch' = NoRows /\ pass' = <<>>
    /\ ckpts' = <<>> /\ finalSaves' = 0 /\ finalVer' = -1
    /\ exit' = "none" /\ failedAt' = "" /\ returned' = "none"
    /\ returnedStale' = FALSE
    /\ seen' = 0 /\ ckptSeen' = <<>>
    /\ UNCHANGED <<batch_size, cwVars, apiVars>>

\* the first object is called with any arguments
ExtractFirst == run = 1 /\ ExtractCall

\* the second object is called with the first one's dataset and arguments
ExtractSame ==
    /\ run = 2
    /\ Extract(first.N, first.items, first.y, first.update_interval,
               first.maxiter, first.tol)

\* the second object's refreshes see the outcomes the first one's saw: the
\* training stops at the refresh at which the first one's stopped
RefreshSame ==
    /\ Refresh
    /\ run = 2 => ((pc' = "final") <=> (first.exit = "converged" /\ ite = first.ite))

NextPair ==
    \/ PretrainCall
    \/ \E given \in BOOLEAN : InitializeModel(given)
    \/ LoadWeights
    \/ ExtractFirst
    \/ ExtractSame
    \/ KMeansInit \/ OpenLog \/ RefreshSame \/ SkipRefresh \/ LoopExhausted
    \/ TrainStepFNN \/ TrainBatchGPU \/ SaveIntermediate \/ Finalize \/ Return
    \/ Raise
    \/ StartSecond

SpecPair == Init /\ [][NextPair]_vars

\* ------------------------------------ compute_class_weights on its own

LabelSeqs(maxlen) == UNION {[1..n -> {0, 1}] : n \in 1..maxlen}

ScenarioVector(c) == [i \in 1..(c[1] + c[2]) |-> IF i <= c[1] THEN 0 ELSE 1]

CwInputs ==
    LET vs == LabelSeqs(MaxLen) \cup {ScenarioVector(c) : c \in ScenarioCounts}
    IN  {[v |-> l, ndim |-> 1] : l \in vs}
        \cup {[v |-> [i \in DOMAIN l |-> to_categorical(l[i])], ndim |-> 2] : l \in vs}

InitCW ==
    /\ impl \in {"FNN", "FNNGPU"}
    /\ batch_size \in 1..MaxBatch
    /\ aeWeights = "random"
    /\ hasEncoder = (impl = "FNNGPU")
    /\ hasModel = (impl = "FNNGPU")
    /\ centroids = IF impl = "FNNGPU" THEN [n |-> NClusters, by |-> "init"]
                   ELSE [n |-> 0, by |-> "none"]
    /\ pc = "cw"
    /\ N = 0 /\ labelled = FALSE /\ items = "plain" /\ y = <<>>
    /\ update_interval = 1 /\ maxiter = 0 /\ tol = <<1, 1000>>
    /\ class_weights = NoWeights /\ cwCalls = 0
    /\ kmeansCalls = 0 /\ kmeansOver = 0
    /\ logfile = "unopened" /\ log = <<>>
    /\ ite = 0 /\ index = 0 /\ bidx = 0
    /\ y_pred_last = <<>> /\ p = -1 /\ train_loader = -1 /\ dirty = FALSE
    /\ trainSteps = 0 /\ stepsThisIter = 0 /\ lastBatch = NoBatch
    /\ batch = NoRows /\ pass = <<>>
    /\ ckpts = <<>> /\ finalSaves = 0 /\ finalVer = -1
    /\ exit = "none" /\ failedAt = "" /\ returned = "none"
    /\ returnedStale = FALSE
    /\ cwIn \in CwInputs
    /\ cwOut = NoWeights
    /\ seen = 0 /\ ckptSeen = <<>>
    /\ run = 1 /\ first = NoValue
    /\ ApiIdle

\* a call of compute_class_weights(y)
ComputeClassWeights ==
    /\ pc = "cw"
    /\ cwOut' = compute_class_weights(impl, cwIn.v, cwIn.ndim)
    /\ pc' = "cwdone"
    /\ UNCHANGED <<objVars, aeWeights, hasEncoder, hasModel, centroids, argVars,
                   class_weights, cwCalls, kmeansCalls, kmeansOver, logfile, log,
                   loopVars, endVars, failedAt, cwIn, pairVars, apiVars>>

NextCW == ComputeClassWeights

SpecCW == InitCW /\ [][NextCW]_vars

\* ----------------------------------- methods and steps on their own

\* a fresh object: __init__ of either class
ObjectNew ==
    /\ impl \in {"FNN", "FNNGPU"}
    /\ batch_size \in 1..MaxBatch
    /\ aeWeights = "random"
    /\ hasEncoder = (impl = "FNNGPU")
    /\ hasModel = (impl = "FNNGPU")
    /\ centroids = IF impl = "FNNGPU" THEN [n |-> NClusters, by |-> "init"]
                   ELSE [n |-> 0, by |-> "none"]

\* no invocation of clustering_with_sentiment or compute_class_weights is under way
TrainingIdle ==
    /\ labelled = FALSE /\ items = "plain" /\ y = <<>>
    /\ update_interval = 1 /\ maxiter = 0 /\ tol = <<1, 1000>>
    /\ class_weights = NoWeights /\ cwCalls = 0
    /\ kmeansCalls = 0 /\ kmeansOver = 0
    /\ logfile = "unopened" /\ log = <<>>
    /\ ite = 0 /\ index = 0 /\ bidx = 0
    /\ p = -1 /\ train_loader = -1 /\ dirty = FALSE
    /\ trainSteps = 0 /\ stepsThisIter = 0 /\ lastBatch = NoBatch
    /\ batch = NoRows /\ pass = <<>>
    /\ ckpts = <<>> /\ finalSaves = 0 /\ finalVer = -1
    /\ exit = "none" /\ failedAt = "" /\ returned = "none"
    /\ returnedStale = FALSE
    /\ cwIn = <<>> /\ cwOut = NoWeights
    /\ seen = 0 /\ ckptSeen = <<>>
    /\ run = 1 /\ first = NoValue

\* the label comparison of a refresh: the previous assignment and the current one
InitRefresh ==
    /\ ObjectNew
    /\ TrainingIdle
    /\ pc = "refresh"
    /\ N \in 1..MaxN
    /\ y_pred_last \in Assignments(N)
    /\ y_pred \in Assignments(N)
    /\ delta_label = NoValue
    /\ net = <<>> /\ stop_words = {}
    /\ call = [name |-> "none"] /\ outcome = "none" /\ results = NoValue

\* delta_label = ... ; y_pred_last = y_pred
CompareLabels ==
    /\ pc = "refresh"
    /\ delta_label' = DeltaLabel(y_pred, y_pred_last)
    /\ y_pred_last' = y_pred
    /\ pc' = "refreshed"
    /\ UNCHANGED <<objVars, aeWeights, hasEncoder, hasModel, centroids, argVars,
                   class_weights, cwCalls, kmeansCalls, kmeansOver, logfile, log,
                   ite, index, bidx, p, train_loader, dirty, trainSteps, seen, stepsThisIter,
                   lastBatch, batch, pass, ckpts, ckptSeen, exit, endVars, failedAt, cwVars,
                   pairVars, y_pred, net, stop_words, call, outcome, results>>

NextRefresh == CompareLabels

SpecRefresh == InitRefresh /\ [][NextRefresh]_vars

\* ------------------------------------------------------------- predict

\* the distinct embedding vectors the inputs are made of
Features == {1, 2}

\* the texts given to predict, and the [CLS] embedding the BERT model gives each
Texts == {"good", "bad"}

Embed(t) == IF t = "good" THEN 1 ELSE 2

\* one row of cluster_output / sentiment_output, as scores: a tie included
ScoreRows(k) == {r \in [1..k -> 0..1] : \E i \in 1..k : r[i] = 1}

\* self.model.predict / self(embeddings): each sample's two output rows
Nets == [Features -> [q : ScoreRows(NClusters), s : ScoreRows(2)]]

RECURSIVE MaxOf(_)
MaxOf(row) ==
    IF Len(row) = 1 THEN row[1]
    ELSE LET m == MaxOf(Tail(row)) IN IF row[1] >= m THEN row[1] ELSE m

\* output.argmax(1) / torch.argmax(output, dim=1) on one row: the index, from 0,
\* of the first maximum
ArgMax(row) == (CHOOSE i \in 1..Len(row) :
    row[i] = MaxOf(row) /\ \A j \in 1..(i - 1) : row[j] < MaxOf(row)) - 1

\* self.class_labels
class_labels == (0 :> "negative" @@ 1 :> "positive")

SampleSeqs(S) == UNION {[1..n -> S] : n \in 1..MaxSamples}

\* the arguments tried: a str, a list of str (the empty list included), a list of
\* embedding rows, a tensor, an ndarray, and a value that is none of them
\* (None, an int, a dict)
PredictInputs ==
    {[kind |-> "str", elem |-> "str", x |-> <<t>>] : t \in Texts}
    \cup {[kind |-> "list", elem |-> "str", x |-> ts] : ts \in SampleSeqs(Texts) \cup {<<>>}}
    \cup {[kind |-> "list", elem |-> "row", x |-> fs] : fs \in SampleSeqs(Features)}
    \cup {[kind |-> "tensor", elem |-> "row", x |-> fs] : fs \in SampleSeqs(Features)}
    \cup {[kind |-> "ndarray", elem |-> "row", x |-> fs] : fs \in SampleSeqs(Features)}
    \cup {[kind |-> "other", elem |-> "none", x |-> <<>>]}

\* predict: `if isinstance(inputs, str)` ... `elif isinstance(inputs, torch.Tensor)`
\* ... `else`: FNN raises ValueError, FNNGPU calls torch.tensor(inputs)
Dispatch(which, inp) ==
    IF inp.kind = "str" THEN "text"
    ELSE IF inp.kind = "list" /\ Len(inp.x) = 0 THEN "IndexError"
    ELSE IF inp.kind = "list" /\ inp.elem = "str" THEN "text"
    ELSE IF inp.kind = "tensor" THEN "tensor"
    ELSE IF which = "FNN" THEN "ValueError"
    ELSE "array"

\* the embeddings the model is applied to, one feature vector per sample
Embeddings(inp) ==
    IF inp.elem = "str" THEN [i \in DOMAIN inp.x |-> Embed(inp.x[i])] ELSE inp.x

PredictRecordsLastFirst(f, emb) ==
    [i \in DOMAIN emb |->
        [sentiment |-> class_labels[ArgMax(f[emb[Len(emb) + 1 - i]].s)],
         cluster   |-> ArgMax(f[emb[Len(emb) + 1 - i]].q)]]

\* the result records of predict, built from the two arg-max vectors
PredictRecords(f, emb) ==
    [i \in DOMAIN emb |->
        [sentiment |-> class_labels[ArgMax(f[emb[i]].s)],
         cluster   |-> ArgMax(f[emb[i]].q)]]

InitPredict ==
    /\ ObjectNew
    /\ TrainingIdle
    /\ pc = "new"
    /\ N = 0 /\ y_pred_last = <<>>
    /\ y_pred = <<>> /\ delta_label = NoValue
    /\ net \in Nets
    /\ stop_words = {}
    /\ call = [name |-> "none"] /\ outcome = "none" /\ results = NoValue

\* pretrain_autoencoder before a prediction: the network may come out of it with
\* any weights
PretrainNet == \E kind \in ItemKinds, trained \in Nets : PretrainAutoencoder(kind, trained)

\* predict(inputs)
Predict(inp) ==
    /\ pc = "new"
    /\ call' = [name |-> "predict", inputs |-> inp]
    /\ LET d == Dispatch(impl, inp)
       IN  IF d \in {"ValueError", "IndexError"}
           THEN outcome' = d /\ results' = NoValue
           ELSE IF d = "array" /\ inp.kind = "other"
           \* torch.tensor(None) and the like: the library's own exception
           THEN outcome' \in {"RuntimeError", "TypeError"} /\ results' = NoValue
           ELSE \* a text input: the tokenizer and the BERT model are loaded first,
                \* and the call ends there when one of them cannot be loaded
                \/ d = "text" /\ outcome' = "OSError" /\ results' = NoValue
                \* then self.model.predict(...) / self(embeddings)
                \/ IF ~hasModel
                   THEN outcome' = "AttributeError" /\ results' = NoValue
                   ELSE outcome' = "ok" /\ results' = PredictRecords(net, Embeddings(inp))
    /\ pc' = "returned"
    /\ UNCHANGED <<objVars, aeWeights, hasEncoder, hasModel, centroids, argVars,
                   class_weights, cwCalls, kmeansCalls, kmeansOver, logfile, log,
                   loopVars, endVars, failedAt, cwVars, pairVars, y_pred,
                   delta_label, net, stop_words>>

\* predict_clusters(x) / predict_sentiment(x) on an array or tensor of embeddings
PredictLabels(name, inp) ==
    /\ pc = "new"
    /\ inp.kind \in {"tensor", "ndarray"}
    /\ call' = [name |-> name, inputs |-> inp]
    /\ IF ~hasModel
       THEN outcome' = "AttributeError" /\ results' = NoValue
       ELSE /\ outcome' = "ok"
            /\ results' = [i \in DOMAIN inp.x |->
                              IF name = "predict_clusters" THEN ArgMax(net[inp.x[i]].q)
                              ELSE ArgMax(net[inp.x[i]].s)]
    /\ pc' = "returned"
    /\ UNCHANGED <<objVars, aeWeights, hasEncoder, hasModel, centroids, argVars,
                   class_weights, cwCalls, kmeansCalls, kmeansOver, logfile, log,
                   loopVars, endVars, failedAt, cwVars, pairVars, y_pred,
                   delta_label, net, stop_words>>

PredictCall == \E inp \in PredictInputs : Predict(inp)

PredictClusters == \E inp \in PredictInputs : PredictLabels("predict_clusters", inp)

PredictSentiment == \E inp \in PredictInputs : PredictLabels("predict_sentiment", inp)

NextPredict ==
    \/ \E given \in BOOLEAN : InitializeModel(given)
    \/ PretrainNet
    \/ PredictCall
    \/ PredictClusters
    \/ PredictSentiment

SpecPredict == InitPredict /\ [][NextPredict]_vars

\* ------------------------------------- stop words and cluster analysis

\* words, as sequences of characters
WordThe == <<"T", "h", "e">>
WordLowerThe == <<"t", "h", "e">>
WordCat == <<"c", "a", "t">>
WordTo == <<"t", "o">>

\* an element that cannot be hashed (a list inside the collection)
Unhashable == <<"[", "]">>

\* str.lower(), character by character
LowerChar(c) == IF c = "T" THEN "t" ELSE c

Lower(w) == [i \in DOMAIN w |-> LowerChar(w[i])]

SeqsUpTo(S, n) == UNION {[1..k -> S] : k \in 0..n}

RECURSIVE SetOf(_)
SetOf(seq) == IF seq = <<>> THEN {} ELSE {Head(seq)} \cup SetOf(Tail(seq))

\* the arguments tried: a list, a tuple (any other iterable), a set, and a value
\* that cannot be iterated (None, an int)
StopArgs ==
    {[kind |-> k, items |-> it] :
        k \in {"list", "tuple"},
        it \in {<<>>, <<WordThe>>, <<WordLowerThe>>, <<WordCat, WordLowerThe>>,
                <<WordLowerThe, WordLowerThe>>, <<Unhashable>>,
                <<WordLowerThe, Unhashable>>}}
    \cup {[kind |-> "set", items |-> it] :
            it \in {<<>>, <<WordThe>>, <<WordLowerThe>>, <<WordCat, WordLowerThe>>}}
    \cup {[kind |-> "other", items |-> <<>>]}

\* set(stop_words) succeeds: the value is iterable and every element hashable
SetBuilds(arg) ==
    /\ arg.kind # "other"
    /\ \A i \in DOMAIN arg.items : arg.items[i] # Unhashable

\* set_stop_words: how the call ends. Only the else branch wraps set() in
\* try / except
SetStopWordsOutcome(arg) ==
    IF arg.kind = "list"
    THEN (IF SetBuilds(arg) THEN "ok" ELSE "TypeError")
    ELSE IF arg.kind = "set" THEN "ok"
    ELSE IF SetBuilds(arg) THEN "ok" ELSE "ValueError"

\* set_stop_words(stop_words)
SetStopWords(arg) ==
    /\ pc = "new"
    /\ call' = [name |-> "set_stop_words", arg |-> arg]
    /\ outcome' = SetStopWordsOutcome(arg)
    /\ IF outcome' = "ok"
       THEN stop_words' = SetOf(arg.items) /\ results' = "self"
       ELSE UNCHANGED stop_words /\ results' = NoValue
    /\ UNCHANGED <<objVars, aeWeights, hasEncoder, hasModel, centroids, pc, argVars,
                   class_weights, cwCalls, kmeansCalls, kmeansOver, logfile, log,
                   loopVars, endVars, failedAt, cwVars, pairVars, y_pred,
                   delta_label, net>>

SetStopWordsCall == \E arg \in StopArgs : SetStopWords(arg)

\* the texts analysed: each one the sequence of its whitespace-separated words
Docs == {<<>>, <<WordThe, WordCat, WordTo>>, <<WordCat, WordLowerThe, WordCat>>}

RECURSIVE Flatten(_)
\* " ".join(cluster_texts) ... .split(): the words of all texts, in order
Flatten(docs) ==
    IF docs = <<>> THEN <<>> ELSE Head(docs) \o Flatten(Tail(docs))

\* word not in self.stop_words and len(word) > 2
KeepWord(w, stop) == w \notin stop /\ Len(w) > 2

\* filtered_words
FilteredWords(docs, stop) ==
    LET words == [i \in DOMAIN Flatten(docs) |-> Lower(Flatten(docs)[i])]
    IN  SelectSeq(words, LAMBDA w : KeepWord(w, stop))

Occurrences(w, seq) == Cardinality({i \in DOMAIN seq : seq[i] = w})

RECURSIVE FirstSeen(_)
\* the distinct words in the order of their first occurrence
FirstSeen(seq) ==
    IF seq = <<>> THEN <<>>
    ELSE <<Head(seq)>> \o FirstSeen(SelectSeq(Tail(seq), LAMBDA w : w # Head(seq)))

RECURSIVE ByCount(_, _)
\* Counter.most_common: by descending count, ties in order of first occurrence
ByCount(ws, seq) ==
    IF ws = <<>> THEN <<>>
    ELSE LET k == CHOOSE i \in DOMAIN ws :
                    /\ \A j \in DOMAIN ws : Occurrences(ws[i], seq) >= Occurrences(ws[j], seq)
                    /\ \A j \in 1..(i - 1) : Occurrences(ws[j], seq) < Occurrences(ws[i], seq)
         IN  <<ws[k]>> \o ByCount(SubSeq(ws, 1, k - 1) \o SubSeq(ws, k + 1, Len(ws)), seq)

Take(seq, k) == SubSeq(seq, 1, IF Len(seq) < k THEN Len(seq) ELSE k)

\* Counter(filtered_words).most_common(20), as <<word, count>> pairs
MostCommon(seq) ==
    LET ws == Take(ByCount(FirstSeen(seq), seq), 20)
    IN  [i \in DOMAIN ws |-> <<ws[i], Occurrences(ws[i], seq)>>]

\* map_texts_to_clusters(texts, cluster_assignments): (clusters, cluster_common_words)
MapTexts(texts, assignments, stop) ==
    LET n   == IF Len(texts) < Len(assignments) THEN Len(texts) ELSE Len(assignments)
        ids == {assignments[i] : i \in 1..n}
        of(c) == LET idx == SelectSeq([i \in 1..n |-> i], LAMBDA i : assignments[i] = c)
                 IN  [k \in DOMAIN idx |-> texts[idx[k]]]
    IN  [clusters |-> [c \in ids |-> of(c)],
         words    |-> [c \in ids |-> MostCommon(FilteredWords(of(c), stop))]]

RECURSIVE Ascending(_)
\* sort_values(by=['Cluster'])
Ascending(S) ==
    IF S = {} THEN <<>>
    ELSE LET m == CHOOSE x \in S : \A z \in S : x <= z
         IN  <<m>> \o Ascending(S \ {m})

\* analyze_clusters: the rows of df_clusters
ClusterTable(mapped) ==
    LET order == Ascending(DOMAIN mapped.clusters)
    IN  [r \in DOMAIN order |->
            [Cluster     |-> order[r],
             CommonWords |-> Take(mapped.words[order[r]], 10),
             TextCount   |-> Len(mapped.clusters[order[r]])]]

InitText ==
    /\ ObjectNew
    /\ TrainingIdle
    /\ pc = "new"
    /\ N = 0 /\ y_pred_last = <<>>
    /\ ApiIdle

\* map_texts_to_clusters(texts, cluster_assignments)
MapTextsToClusters(texts, assignments) ==
    /\ pc = "new"
    /\ call' = [name |-> "map_texts_to_clusters", texts |-> texts,
                cluster_assignments |-> assignments]
    /\ outcome' = "ok"
    /\ results' = MapTexts(texts, assignments, stop_words)
    /\ pc' = "returned"
    /\ UNCHANGED <<objVars, aeWeights, hasEncoder, hasModel, centroids, argVars,
                   class_weights, cwCalls, kmeansCalls, kmeansOver, logfile, log,
                   loopVars, endVars, failedAt, cwVars, pairVars, y_pred,
                   delta_label, net, stop_words>>

\* analyze_clusters(x, texts): assignments is what get_cluster_assignments(x) gives,
\* one cluster id per row of x
AnalyzeClusters(texts, assignments) ==
    /\ pc = "new"
    /\ call' = [name |-> "analyze_clusters", texts |-> texts,
                cluster_assignments |-> assignments]
    /\ IF ~hasModel
       THEN outcome' = "AttributeError" /\ results' = NoValue
       ELSE LET mapped == MapTexts(texts, assignments, stop_words)
            IN  IF DOMAIN mapped.clusters = {}
                \* a frame without rows has no column 'Cluster' to sort by; for an
                \* x without rows the forward pass itself may reject the input
                THEN /\ \/ outcome' = "KeyError"
                        \/ /\ assignments = <<>>
                           /\ outcome' = IF impl = "FNN" THEN "ValueError"
                                         ELSE "RuntimeError"
                     /\ results' = NoValue
                ELSE outcome' = "ok" /\ results' = ClusterTable(mapped)
    /\ pc' = "returned"
    /\ UNCHANGED <<objVars, aeWeights, hasEncoder, hasModel, centroids, argVars,
                   class_weights, cwCalls, kmeansCalls, kmeansOver, logfile, log,
                   loopVars, endVars, failedAt, cwVars, pairVars, y_pred,
                   delta_label, net, stop_words>>

MapTextsCall ==
    \E texts \in SeqsUpTo(Docs, MaxTexts),
       assignments \in SeqsUpTo(0..(NClusters - 1), MaxAssign) :
        MapTextsToClusters(texts, assignments)

AnalyzeCall ==
    \E texts \in SeqsUpTo(Docs, MaxTexts),
       assignments \in SeqsUpTo(0..(NClusters - 1), MaxAssign) :
        AnalyzeClusters(texts, assignments)

NextText ==
    \/ \E given \in BOOLEAN : InitializeModel(given)
    \/ SetStopWordsCall
    \/ MapTextsCall
    \/ AnalyzeCall

SpecText == InitText /\ [][NextText]_vars

\* ------------------------------- the clustering head and the target distribution

\* float32 values as fractions <<n, d>> in lowest terms, d > 0; inf is <<1, 0>>
\* and nan is <<0, 0>> (no value below zero occurs in these computations)
Inf == <<1, 0>>
NaN == <<0, 0>>
Zero == <<0, 1>>
One == <<1, 1>>

IsFinite(a) == a[2] # 0

\* a + b
FAdd(a, b) ==
    IF a = NaN \/ b = NaN THEN NaN
    ELSE IF a = Inf \/ b = Inf THEN Inf
    ELSE Ratio(a[1] * b[2] + b[1] * a[2], a[2] * b[2])

\* a * b
FMul(a, b) ==
    IF a = NaN \/ b = NaN THEN NaN
    ELSE IF a = Inf \/ b = Inf THEN (IF a = Zero \/ b = Zero THEN NaN ELSE Inf)
    ELSE Ratio(a[1] * b[1], a[2] * b[2])

\* a / b: x / inf = 0, x / 0 = inf for x > 0, 0 / 0 = inf / inf = nan
FDiv(a, b) ==
    IF a = NaN \/ b = NaN THEN NaN
    ELSE IF a = Inf THEN (IF b = Inf THEN NaN ELSE Inf)
    ELSE IF b = Inf THEN Zero
    ELSE IF b = Zero THEN (IF a = Zero THEN NaN ELSE Inf)
    ELSE Ratio(a[1] * b[2], a[2] * b[1])

\* a ** k for a whole exponent k >= 1
RECURSIVE FPow(_, _)
FPow(a, k) == IF k = 1 THEN a ELSE FMul(a, FPow(a, k - 1))

\* torch.sum of a sequence of values
RECURSIVE FSum(_)
FSum(vs) == IF vs = <<>> THEN Zero ELSE FAdd(Head(vs), FSum(Tail(vs)))

\* a coordinate m * 10^e as <<m, e>>: 0, 1 and 2e19, which float32 holds
\* (its largest finite value is about 3.4e38)
Coords == {<<0, 0>>, <<1, 0>>, <<2, 19>>}

\* float32 of m * 10^e for 0 <= m < 10: inf above the largest finite value
Float32(m, e) ==
    CASE m = 0 -> Zero
      [] m # 0 /\ e = 0 -> <<m, 1>>
      [] m # 0 /\ (e > 38 \/ (e = 38 /\ m > 3)) -> Inf

\* torch.square(a - b) of two coordinates: exact for equal exponents; next to
\* 2e19 a value of 0 or 1 is lost in the rounding of the difference
SquareDiff(a, b) ==
    IF a[2] = b[2] THEN Float32((a[1] - b[1]) * (a[1] - b[1]), 2 * a[2])
    ELSE IF a[2] > b[2] THEN Float32(a[1] * a[1], 2 * a[2])
    ELSE Float32(b[1] * b[1], 2 * b[2])

\* torch.sum(torch.square(x - clusters), dim=2) for one sample and one centroid
SquaredDistance(x, c) == FSum([k \in DOMAIN x |-> SquareDiff(x[k], c[k])])

\* q = 1.0 / (1.0 + dist / alpha); q = q ** ((alpha + 1.0) / 2.0), alpha odd
Kernel(x, c, alpha) ==
    FPow(FDiv(One, FAdd(One, FDiv(SquaredDistance(x, c), <<alpha, 1>>))),
         (alpha + 1) \div 2)

\* q = q / torch.sum(q, dim=1, keepdim=True)
NormalizeRows(t) ==
    [i \in DOMAIN t |-> [j \in DOMAIN t[i] |-> FDiv(t[i][j], FSum(t[i]))]]

\* ClusteringLayer.forward(x) with self.clusters = clusters, self.alpha = alpha
ClusteringForward(x, clusters, alpha) ==
    NormalizeRows([i \in DOMAIN x |->
                      [j \in DOMAIN clusters |-> Kernel(x[i], clusters[j], alpha)]])

\* q.sum(0): the sum of each column
ColumnSums(q) == [j \in DOMAIN q[1] |-> FSum([i \in DOMAIN q |-> q[i][j]])]

\* weight = q ** 2 / q.sum(0)
Weight(q) ==
    [i \in DOMAIN q |->
        [j \in DOMAIN q[i] |-> FDiv(FMul(q[i][j], q[i][j]), ColumnSums(q)[j])]]

TargetDistributionNoRenorm(q) == Weight(q)

\* target_distribution(q): (weight.T / weight.sum(1)).T
target_distribution(q) == NormalizeRows(Weight(q))

\* the points of a 2-dimensional bottleneck
Points == Coords \X Coords

\* odd values of alpha: the exponent (alpha + 1) / 2 is then a whole number
Alphas == {1, 3}

\* batches of 1 .. MaxRows rows
Batches(S) == UNION {[1..n -> S] : n \in 1..MaxRows}

\* rows of a soft assignment over the NClusters = 2 clusters
QRows == {<<<<1, 2>>, <<1, 2>>>>, <<One, Zero>>, <<Zero, One>>,
          <<<<1, 4>>, <<3, 4>>>>, <<<<2, 3>>, <<1, 3>>>>}

InitDist ==
    /\ ObjectNew
    /\ TrainingIdle
    /\ pc = "new"
    /\ N = 0 /\ y_pred_last = <<>>
    /\ ApiIdle

\* q = self.clustering(bottleneck): FNNGPU's clustering head on a batch
Forward(x, clusters, alpha) ==
    /\ pc = "new"
    /\ impl = "FNNGPU"
    /\ call' = [name |-> "forward", x |-> x, clusters |-> clusters, alpha |-> alpha]
    /\ results' = ClusteringForward(x, clusters, alpha)
    /\ outcome' = "ok"
    /\ pc' = "returned"
    /\ UNCHANGED <<objVars, aeWeights, hasEncoder, hasModel, centroids, argVars,
                   class_weights, cwCalls, kmeansCalls, kmeansOver, logfile, log,
                   loopVars, endVars, failedAt, cwVars, pairVars, y_pred,
                   delta_label, net, stop_words>>

ForwardCall ==
    /\ pc = "new"
    /\ \E x \in Batches(Points), clusters \in [1..NClusters -> Points],
          alpha \in Alphas :
            Forward(x, clusters, alpha)

\* p = self.target_distribution(q)
TargetDistribution(q) ==
    /\ pc = "new"
    /\ call' = [name |-> "target_distribution", q |-> q]
    /\ results' = target_distribution(q)
    /\ outcome' = "ok"
    /\ pc' = "returned"
    /\ UNCHANGED <<objVars, aeWeights, hasEncoder, hasModel, centroids, argVars,
                   class_weights, cwCalls, kmeansCalls, kmeansOver, logfile, log,
                   loopVars, endVars, failedAt, cwVars, pairVars, y_pred,
                   delta_label, net, stop_words>>

TargetDistributionCall ==
    /\ pc = "new"
    /\ \E q \in Batches(QRows) : TargetDistribution(q)

NextDist ==
    \/ ForwardCall
    \/ TargetDistributionCall

SpecDist == InitDist /\ [][NextDist]_vars

\* ================================================================ claims

LoopPcs == {"head", "train", "save"}
AfterLoopPcs == {"final", "return", "done"}
InCallPcs == {"kmeans", "openlog"} \cup LoopPcs \cup AfterLoopPcs

\* C1: a model whose autoencoder weights were never pretrained / loaded is never
\* used by clustering_with_sentiment: no k-means centroid initialization, no
\* refresh and no train step runs on it.
C1_NoJointTrainingUnpretrained ==
    aeWeights = "random" =>
        /\ kmeansCalls = 0
        /\ log = <<>>
        /\ trainSteps = 0

\* C2: a refresh ends the training iff it is not the first one (ite > 0) and
\* delta_label < tol; after a convergence stop there is no further train step and
\* no further refresh, and the stop comes before maxiter.
C2_StopIffLaterRefreshBelowTol ==
    /\ [][(pc = "head" /\ Len(log') = Len(log) + 1) =>
            /\ (pc' = "final" /\ exit' = "converged")
                 <=> (ite > 0 /\ Cardinality({i \in 1..N : y_pred_last'[i] # y_pred_last[i]})
                                   * tol[2] < tol[1] * N)
            /\ pc' \in {"final", "train"}]_vars
    /\ [][exit = "converged" => (trainSteps' = trainSteps /\ log' = log)]_vars
    /\ [](exit = "converged" => ite < maxiter)

C2_Witness ==
    /\ pc = "done" /\ exit = "converged"
    /\ ite > 0 /\ ite + 1 < maxiter
    /\ trainSteps > 0

\* C3: the training loop terminates; it is left exactly when the stop criterion
\* fires or the iteration counter reaches maxiter, whichever is first; the
\* counter only increases and never exceeds maxiter.  (A run an exception aborts
\* ends in "failed".)
C3_LoopTerminates ==
    /\ [](ite <= maxiter)
    /\ [][ite' >= ite]_vars
    /\ [](pc \in {"train", "save"} => (ite < maxiter /\ exit = "none"))
    /\ [](pc \in AfterLoopPcs =>
            \/ exit = "converged" /\ ite < maxiter
            \/ exit = "maxiter" /\ ite = maxiter)
    /\ [][(pc = "head" /\ ite = maxiter /\ pc' # pc) => pc' = "final"]_vars
    /\ (pc \in {"openlog"} \cup LoopPcs) ~> (pc \in {"done", "failed"})

C3_Witness ==
    /\ pc = "done" /\ exit = "maxiter"
    /\ ite = maxiter /\ maxiter >= 2
    /\ Len(log) >= 2

\* C4: however the loop ends (convergence stop or maxiter, maxiter = 0 included),
\* the weights are written exactly once under the terminal checkpoint name, after
\* the last train step.
C4_FinalCheckpointOnce ==
    /\ finalSaves <= 1
    /\ pc \in ({"new", "kmeans", "openlog", "final"} \cup LoopPcs) =>
           (finalSaves = 0 /\ finalVer = -1)
    /\ (pc \in {"return", "done"} \/ (pc = "failed" /\ failedAt = "return")) =>
           (finalSaves = 1 /\ finalVer = trainSteps)

C4_Witness ==
    /\ pc = "done" /\ exit = "converged"
    /\ finalSaves = 1 /\ finalVer = trainSteps /\ trainSteps >= 2

\* C5: once the log file is open, it is closed before clustering_with_sentiment
\* is left, on every exit path: the normal end, the convergence stop, and an
\* exception raised in a refresh, a train step or a checkpoint write.
C5_LogClosedOnEveryExit ==
    (pc \in {"done", "failed"} /\ logfile # "unopened") => logfile = "closed"

\* C6: a refresh runs at iteration ite exactly when ite is a multiple of
\* update_interval (0 included), before the train step of that iteration.
C6_RefreshCadence ==
    /\ [](\A k \in 1..Len(log) : log[k].iter = (k - 1) * update_interval)
    /\ [](pc \in {"train", "save"} =>
            /\ Len(log) = (ite \div update_interval) + 1
            /\ p = ite - (ite % update_interval))
    /\ [](pc = "head" /\ logfile = "open" =>
            Len(log) = (ite + update_interval - 1) \div update_interval)
    /\ [][Len(log') > Len(log) =>
            /\ stepsThisIter = 0
            /\ trainSteps' = trainSteps
            /\ log'[Len(log')].iter = ite
            /\ ite % update_interval = 0]_vars
    /\ [][trainSteps' > trainSteps => p = ite - (ite % update_interval)]_vars

C6_Witness ==
    /\ pc = "train" /\ update_interval = 2 /\ ite = 2
    /\ Len(log) = 2 /\ p = 2 /\ stepsThisIter = 0 /\ trainSteps > 0

\* C7: within one invocation k-means runs exactly once, over the bottleneck
\* vectors of the whole training set, before any gradient step; afterwards only
\* gradient steps change the centroids, and there are always n_clusters of them.
C7_KMeansOnce ==
    /\ [](kmeansCalls <= 1)
    /\ [](trainSteps > 0 => kmeansCalls = 1)
    /\ [](kmeansCalls = 1 => kmeansOver = N)
    /\ [](pc \in ({"openlog"} \cup LoopPcs \cup AfterLoopPcs) =>
            /\ kmeansCalls = 1
            /\ centroids.n = NClusters
            /\ centroids.by \in {"kmeans", "grad"})
    /\ [][kmeansCalls' > kmeansCalls => trainSteps = 0]_vars
    /\ [][(kmeansCalls = 1 /\ centroids' # centroids) =>
            /\ trainSteps' = trainSteps + 1
            /\ centroids'.by = "grad"
            /\ centroids'.n = centroids.n]_vars

C7_Witness ==
    /\ pc = "done" /\ kmeansCalls = 1 /\ kmeansOver = N /\ N > batch_size
    /\ centroids = [n |-> NClusters, by |-> "grad"]
    /\ Len(log) >= 2

\* C8: on an unlabelled dataset every loop iteration that passes its refresh
\* performs a train step (clustering loss only), whose sentiment loss term is 0.
C8_UnlabelledStillTrains ==
    (~labelled /\ pc = "save") =>
        (stepsThisIter >= 1 /\ lastBatch.sent = "zero")

\* C9: compute_class_weights is called exactly once per invocation when the
\* dataset has labels (also in an invocation that raises later on), before the
\* first train step, and the class-weight map is not changed during the loop; it
\* is never called without labels.
C9_ClassWeightsOnce ==
    /\ [](cwCalls <= 1)
    /\ []((labelled /\ pc \in InCallPcs \cup {"failed"}) =>
            /\ cwCalls = 1
            /\ class_weights = compute_class_weights(impl, CwArgument(impl, y).v,
                                                     CwArgument(impl, y).ndim))
    /\ [](~labelled => (cwCalls = 0 /\ class_weights = NoWeights))
    /\ [][cwCalls' > cwCalls => trainSteps = 0 /\ pc = "new"]_vars
    /\ [][pc # "new" => (class_weights' = class_weights /\ cwCalls' = cwCalls)]_vars

\* C10: compute_class_weights returns, for every observed class c,
\* weight[c] = total_samples / (num_classes * count[c]); two classes of equal
\* count both get 1; counts {negative: 100, positive: 25} give
\* weight[positive] = 4 * weight[negative].
C10_BalancedWeights ==
    pc = "cwdone" =>
        LET labelOf(i) == IF cwIn.ndim = 2
                          THEN (IF cwIn.v[i] = <<1, 0>> THEN 0 ELSE 1)
                          ELSE cwIn.v[i]
            total      == Len(cwIn.v)
            cnt(c)     == Cardinality({i \in 1..total : labelOf(i) = c})
            observed   == {c \in {0, 1} : cnt(c) >= 1}
        IN  /\ DOMAIN cwOut = observed
            /\ \A c \in observed :
                  cwOut[c][1] * cnt(c) * Cardinality(observed) = total * cwOut[c][2]
            /\ (cnt(0) = cnt(1)) => (cwOut[0] = <<1, 1>> /\ cwOut[1] = <<1, 1>>)
            /\ (cnt(0) = 100 /\ cnt(1) = 25) =>
                  cwOut[1][1] * cwOut[0][2] = 4 * cwOut[0][1] * cwOut[1][2]

C10_Witness ==
    /\ pc = "cwdone"
    /\ Len(cwIn.v) = 125
    /\ cwOut = (0 :> <<5, 8>> @@ 1 :> <<5, 2>>)

\* C11: when one of the two sentiment classes has no sample in the labels,
\* class-weight computation ends in an error: no train step ever runs with a
\* class-weight map that has fewer than 2 keys.
C11_NoTrainingOnPartialWeights ==
    (labelled /\ trainSteps > 0) => Cardinality(DOMAIN class_weights) = 2

\* C12: at a refresh, delta_label = (number of samples whose assignment differs
\* from the one recorded before) / N; it lies in [0, 1]; it is 0 iff no sample's
\* assignment changed; afterwards the recorded assignment is the current one.
C12_DeltaLabel ==
    /\ [](pc = "refreshed" =>
            /\ delta_label[2] > 0
            /\ 0 <= delta_label[1] /\ delta_label[1] <= delta_label[2]
            /\ y_pred_last = y_pred)
    /\ [][(pc = "refresh" /\ pc' = "refreshed") =>
            LET moved == {i \in 1..N : y_pred[i] # y_pred_last[i]}
            IN  /\ delta_label'[1] * N = Cardinality(moved) * delta_label'[2]
                /\ (delta_label'[1] = 0) <=> (y_pred = y_pred_last)]_vars

C12_Witness ==
    /\ pc = "refreshed" /\ N = 3
    /\ delta_label = <<2, 3>>
    /\ y_pred_last = y_pred

\* C13: predict accepts a text sequence, a tensor or an array, and reports a
\* ValueError for an input of any other type and for an input it cannot dispatch
\* (an empty list), in FNN and in FNNGPU.
C13_PredictInvalidInputIsValueError ==
    (call.name = "predict" /\ outcome # "none") =>
        /\ (call.inputs.kind = "other"
              \/ (call.inputs.kind = "list" /\ Len(call.inputs.x) = 0))
             => outcome = "ValueError"
        /\ (call.inputs.kind \in {"str", "tensor", "ndarray"}
              \/ (call.inputs.kind = "list" /\ call.inputs.elem = "str"
                    /\ Len(call.inputs.x) > 0))
             => outcome # "ValueError"

\* C14: for an accepted input of n samples predict returns n records in input
\* order, record i holding the arg-max sentiment name and the arg-max cluster of
\* sample i, with sentiment in {negative, positive} and cluster in
\* [0, n_clusters); predict_clusters returns n labels in [0, n_clusters) and
\* predict_sentiment n labels in {0, 1}, whatever the weights are.
C14_PredictShape ==
    LET n    == Len(call.inputs.x)
        emb  == Embeddings(call.inputs)
        best(row, k) == \A j \in 1..Len(row) : row[k + 1] >= row[j]
    IN  /\ (call.name = "predict" /\ outcome = "ok") =>
              /\ Len(results) = n
              /\ \A i \in 1..n :
                    /\ DOMAIN results[i] = {"sentiment", "cluster"}
                    /\ results[i].cluster \in 0..(NClusters - 1)
                    /\ results[i].sentiment \in {"negative", "positive"}
                    /\ best(net[emb[i]].q, results[i].cluster)
                    /\ best(net[emb[i]].s,
                            IF results[i].sentiment = "negative" THEN 0 ELSE 1)
        /\ (call.name = "predict_clusters" /\ outcome = "ok") =>
              /\ Len(results) = n
              /\ \A i \in 1..n : /\ results[i] \in 0..(NClusters - 1)
                                 /\ best(net[emb[i]].q, results[i])
        /\ (call.name = "predict_sentiment" /\ outcome = "ok") =>
              /\ Len(results) = n
              /\ \A i \in 1..n : /\ results[i] \in {0, 1}
                                 /\ best(net[emb[i]].s, results[i])
        /\ (call.name = "predict" /\ hasModel
              /\ Dispatch(impl, call.inputs) \in {"tensor", "text"}) =>
              outcome \in {"ok", "OSError"}

C14_Witness ==
    /\ call.name = "predict" /\ outcome = "ok"
    /\ call.inputs.kind = "list" /\ call.inputs.elem = "str"
    /\ call.inputs.x = <<"bad", "good">>
    /\ results = << [sentiment |-> "negative", cluster |-> 1],
                    [sentiment |-> "positive", cluster |-> 0] >>

\* C15: the training log is append-only with one record per refresh: every
\* refresh (the one at iteration 0 and the one that stops the training included)
\* appends one record and nothing else writes to the log; records are in strictly
\* increasing iteration order, a written record never changes, and acc_cluster,
\* nmi and ari are 0 in every record.
C15_LogAppendOnly ==
    /\ [][log' # log =>
            /\ Len(log') = Len(log) + 1
            /\ SubSeq(log', 1, Len(log)) = log
            /\ log'[Len(log')].iter = ite
            /\ ite % update_interval = 0
            /\ p' = ite /\ p # ite
            /\ logfile = "open"]_vars
    /\ [][p' # p => Len(log') = Len(log) + 1]_vars
    /\ [](\A k \in 1..Len(log) :
            log[k].acc_cluster = 0 /\ log[k].nmi = 0 /\ log[k].ari = 0)
    /\ [](\A k \in 2..Len(log) : log[k].iter > log[k - 1].iter)

C15_Witness ==
    /\ pc = "done" /\ exit = "converged"
    /\ Len(log) = 3 /\ log[1].iter = 0 /\ log[3].iter = 2
    /\ logfile = "closed"

\* C16: intermediate checkpoints come every 5 epochs: between two successive
\* intermediate checkpoints the trainer consumes exactly 5 * N samples (5 full
\* passes over the dataset), and it never goes on for more than 5 passes without
\* writing one. Stated for the runs that train: FNN on a labelled dataset, FNNGPU
\* on any dataset.
C16_CheckpointEveryFiveEpochs ==
    (labelled \/ impl = "FNNGPU") =>
        /\ \A j \in 2..Len(ckptSeen) : ckptSeen[j] - ckptSeen[j - 1] = 5 * N
        /\ pc = "head" =>
              seen - (IF ckptSeen = <<>> THEN 0 ELSE ckptSeen[Len(ckptSeen)]) <= 5 * N

\* C17: in both implementations a labelled dataset is trained on, one batch and
\* one gradient step at a time: the entry code does not raise on the labelled
\* items, and every loop iteration that gets past its refresh performs exactly one
\* gradient step, on one batch of at most batch_size samples, with the weighted
\* cross-entropy in the loss.
C17_OneGradientStepPerIteration ==
    /\ (labelled /\ pc = "save") =>
            /\ stepsThisIter = 1
            /\ lastBatch.size <= batch_size
            /\ lastBatch.sent = "weighted_ce"
    /\ (labelled /\ pc = "failed") => failedAt \notin {"torch.cat", "if all_labels"}

\* C18: run on the same dataset with the same batch_size, update_interval, tol
\* and maxiter and the same refresh outcomes, the two implementations produce
\* the same events: centroid initialization, refreshes with their log records,
\* gradient steps, intermediate checkpoints with their iteration numbers, the
\* final checkpoint, and a result of the same shape.
C18_SameEvents ==
    (run = 2 /\ pc = "done") =>
        /\ kmeansCalls = first.kmeansCalls
        /\ log = first.log
        /\ trainSteps = first.trainSteps
        /\ ckpts = first.ckpts
        /\ finalSaves = first.finalSaves
        /\ returned = first.returned

\* C19: set_stop_words raises ValueError for every argument that cannot be
\* converted to a set; for a list, a set or another convertible collection it
\* sets the stop words to the set of the given elements and returns the model.
C19_StopWordsValueError ==
    (call.name = "set_stop_words" /\ outcome # "none") =>
        LET convertible ==
                /\ call.arg.kind \in {"list", "tuple", "set"}
                /\ \A i \in 1..Len(call.arg.items) : call.arg.items[i] # Unhashable
        IN  IF convertible
            THEN /\ outcome = "ok"
                 /\ stop_words = {call.arg.items[i] : i \in 1..Len(call.arg.items)}
                 /\ results = "self"
            ELSE outcome = "ValueError"

\* C20: the cluster analysis partitions the first n = min(len(texts),
\* len(assignments)) texts by cluster id, for every n, 0 included:
\* analyze_clusters returns a table with one row per cluster id that received a
\* text, rows in ascending cluster id, every text counted in exactly one row
\* (the counts sum to n), and no common word is a configured stop word or has
\* length <= 2.
C20_ClusterTable ==
    LET texts  == call.texts
        assign == call.cluster_assignments
        n      == IF Len(texts) < Len(assign) THEN Len(texts) ELSE Len(assign)
        used   == {assign[i] : i \in 1..n}
        members(c) == {i \in 1..n : assign[i] = c}
        cleanWords(ws) == \A k \in 1..Len(ws) :
                             /\ ws[k][1] \notin stop_words
                             /\ Len(ws[k][1]) > 2
                             /\ ws[k][2] >= 1
    IN  /\ (call.name = "map_texts_to_clusters" /\ outcome # "none") =>
              /\ outcome = "ok"
              /\ DOMAIN results.clusters = used
              /\ DOMAIN results.words = used
              /\ \A c \in used :
                    /\ Len(results.clusters[c]) = Cardinality(members(c))
                    /\ \A k \in 1..Len(results.clusters[c]) :
                          \E i \in members(c) :
                             /\ results.clusters[c][k] = texts[i]
                             /\ Cardinality({j \in members(c) : j < i}) = k - 1
                    /\ cleanWords(results.words[c])
        /\ (call.name = "analyze_clusters" /\ outcome = "ok") =>
              /\ Len(results) = Cardinality(used)
              /\ {results[r].Cluster : r \in 1..Len(results)} = used
              /\ \A r \in 2..Len(results) : results[r - 1].Cluster < results[r].Cluster
              /\ \A r \in 1..Len(results) :
                    /\ results[r].TextCount = Cardinality(members(results[r].Cluster))
                    /\ results[r].TextCount >= 1
                    /\ cleanWords(results[r].CommonWords)
              /\ Cardinality(UNION {members(results[r].Cluster) : r \in 1..Len(results)}) = n
        /\ (call.name = "analyze_clusters" /\ outcome # "none" /\ hasModel) =>
              outcome = "ok"

\* C23: no train step is ever executed on an empty batch: for every dataset size
\* N >= 1 and batch size B >= 1, also when N is an exact multiple of B, every
\* batch handed to a gradient step contains at least one sample.
C23_NoEmptyBatch ==
    lastBatch # NoBatch => lastBatch.size >= 1

\* C24: every train step uses the target distribution p of the most recent
\* refresh: none runs before the first refresh has produced p, the p used at
\* iteration ite was computed at the largest multiple of update_interval that is
\* <= ite (at most update_interval - 1 iterations stale), and p is never changed
\* between two refreshes.
C24_TrainOnLatestP ==
    /\ [][trainSteps' > trainSteps =>
            /\ Len(log) >= 1 /\ p >= 0
            /\ lastBatch'.pIter = p
            /\ lastBatch'.pIter = ite - (ite % update_interval)
            /\ ite - lastBatch'.pIter <= update_interval - 1]_vars
    /\ [][(pc \in {"train", "save"} \/ (pc = "head" /\ Len(log') = Len(log))) =>
            p' = p]_vars

C24_Witness ==
    /\ impl = "FNNGPU" /\ update_interval = 2 /\ ite = 1 /\ pc = "save"
    /\ lastBatch.pIter = 0 /\ stepsThisIter >= 1 /\ Len(log) = 1

\* the rows 0 .. n-1 in increasing order
RowsUpTo(n) == [k \in 1..n |-> k - 1]

\* C25: in FNN on a labelled dataset the train steps walk the dataset strictly
\* sequentially by batch index: between two resets of the batch index to 0 every
\* sample 0..N-1 is in exactly one batch, batches are taken in increasing index
\* order, and in every batch sample i is paired with its own target row p[i], its
\* own label y[i] and the class weight of its own label.
C25_SequentialBatches ==
    (impl = "FNN" /\ labelled /\ trainSteps > 0) =>
        \* the samples of the pass so far: 0, 1, 2, ... without gap or repeat
        /\ pass = RowsUpTo(Len(pass))
        /\ Len(pass) <= N
        \* a reset of the index ends a pass over all N samples
        /\ index = 0 => pass = RowsUpTo(N)
        /\ index > 0 => Len(pass) = index * batch_size
        \* the batch is the tail of the pass
        /\ Len(batch.batch_x) <= Len(pass)
        /\ batch.batch_x = SubSeq(pass, Len(pass) - Len(batch.batch_x) + 1, Len(pass))
        /\ Len(batch.batch_x) = lastBatch.size
        \* pairing of each sample with its own rows
        /\ batch.batch_p = batch.batch_x
        /\ batch.batch_y_sentiment = batch.batch_x
        /\ DOMAIN batch.sample_weights = DOMAIN batch.batch_x
        /\ \A k \in DOMAIN batch.batch_x :
              batch.sample_weights[k] = class_weights[y[batch.batch_x[k] + 1]]

C25_Witness ==
    /\ impl = "FNN" /\ labelled /\ N = 3 /\ batch_size = 2
    /\ trainSteps = 3 /\ index = 1
    /\ batch.batch_x = <<0, 1>> /\ pass = <<0, 1>>
    /\ y = <<0, 0, 1>>

\* C26: the predictions clustering_with_sentiment returns are those of the model
\* under its final, persisted weights: no train step (or other change of the
\* weights) lies between their computation and the return, on the convergence
\* exit and on the maxiter exit, and the returned value has the same shape on
\* every exit: assignments and sentiment predictions when labelled, assignments
\* only when unlabelled.
C26_ReturnsFinalPredictions ==
    /\ pc = "done" =>
          /\ ~returnedStale
          /\ finalVer = trainSteps
          /\ returned = (IF labelled THEN "pair" ELSE "single")
    /\ ~(pc = "failed" /\ failedAt = "return")

\* |a - 1| <= 1e-5 for a finite value a
NearOne(a) ==
    /\ IsFinite(a)
    /\ (a[1] - a[2]) * 100000 <= a[2]
    /\ (a[2] - a[1]) * 100000 <= a[2]

StrictlyPositive(a) == a = Inf \/ (IsFinite(a) /\ a[1] > 0)

\* C21: for alpha > 0, any bottleneck batch and any centroid set of size K, every
\* row of the soft assignment q of the clustering head is a probability
\* distribution over the K clusters: all entries strictly positive, and the row
\* sums to 1 within 1e-5.
C21_QRowsAreDistributions ==
    (pc = "returned" /\ call.name = "forward") =>
        /\ DOMAIN results = DOMAIN call.x
        /\ \A i \in DOMAIN results :
              /\ DOMAIN results[i] = 1..NClusters
              /\ \A j \in 1..NClusters :
                    IsFinite(results[i][j]) /\ StrictlyPositive(results[i][j])
              /\ NearOne(FSum(results[i]))

\* a valid q: every row is a distribution over the clusters and every cluster
\* column has a positive sum
ValidQ(q) ==
    /\ \A i \in DOMAIN q :
          /\ \A j \in DOMAIN q[i] : IsFinite(q[i][j]) /\ q[i][j][1] >= 0
          /\ FSum(q[i]) = One
    /\ \A j \in DOMAIN q[1] : StrictlyPositive(ColumnSums(q)[j])

UniformQ(q) == \A i \in DOMAIN q : \A j \in DOMAIN q[i] : q[i][j] = <<1, NClusters>>

\* C22: for any valid q, target_distribution(q) has the shape of q and each of its
\* rows sums to 1; in particular for a uniform q.
C22_TargetRowsSumToOne ==
    (pc = "returned" /\ call.name = "target_distribution" /\ ValidQ(call.q)) =>
        /\ DOMAIN results = DOMAIN call.q
        /\ \A i \in DOMAIN results :
              /\ DOMAIN results[i] = DOMAIN call.q[i]
              /\ \A j \in DOMAIN results[i] :
                    IsFinite(results[i][j]) /\ results[i][j][1] >= 0
              /\ FSum(results[i]) = One
        /\ UniformQ(call.q) => results = call.q

C22_Witness ==
    /\ pc = "returned" /\ call.name = "target_distribution"
    /\ call.q = << << <<1, 4>>, <<3, 4>> >>, << <<2, 3>>, <<1, 3>> >> >>
    /\ ValidQ(call.q)
    /\ results # call.q
    /\ results[1][2][1] * 4 > 3 * results[1][2][2]

====
